---- MODULE Spec2Model ----
(***************************************************************************)
(* Canyon-SQL: the multi-backend connection handle, the query parameter    *)
(* marshalling (QueryParameters) and the row facade (RowOperations).       *)
(*                                                                         *)
(*   Spec         DatabaseConnection::new, the detached PostgreSQL driver  *)
(*                task and concurrent callers of the built handle          *)
(*   MarshalSpec  as_postgres_param / as_sqlserver_param on every impl     *)
(*   RowSpec      get / get_opt on a row of either backend                 *)
(***************************************************************************)
EXTENDS Integers, Sequences, FiniteSets, TLC

VARIABLES
    datasource,  \* the DatasourceConfig handed to DatabaseConnection::new
    pc,          \* position of the call of new() between its await points
    result,      \* what new() produced: pending, a handle variant, Err, panic
    config,      \* the tiberius::Config built by the SqlServer branch
    io,          \* network operations started so far, in order, with outcome
    driver,      \* the spawned tokio_postgres connection future
    log,         \* lines written by eprintln!
    borrowers,   \* callers holding &mut SqlServerConnection of the handle
    taskpc,      \* position of each concurrent caller
    got,         \* what each caller's query returned
    pgPending,   \* requests queued in the tokio_postgres client, in order
    stream,      \* requests written on the tiberius TCP stream, unanswered
    param,       \* the value a QueryParameters method is called on
    marshalled,  \* what that method produced
    row,         \* the &dyn Row a RowOperations method is called on
    rowcall,     \* the method, column name and Output type of the call
    rowout,      \* what the call produced
    served,      \* the backend whose row type the call was downcast to
    config_file, \* the datasources declared in the configuration file
    canyon_sql,  \* the CanyonSqlConfig loaded from it
    db_types,    \* get_db_type() of each loaded datasource
    macro_data,  \* the entity a derive of CanyonCrud is expanded for
    tokens,      \* the update methods generate_update_tokens produced
    update_call  \* a call of the generated update / update_datasource

connVars == <<datasource, pc, result, config, io, driver, log,
              borrowers, taskpc, got, pgPending, stream>>
marshalVars == <<param, marshalled>>
rowVars == <<row, rowcall, rowout, served>>
loaderVars == <<config_file, canyon_sql, db_types>>
macroVars == <<macro_data, tokens, update_call>>
vars == <<connVars, marshalVars, rowVars, loaderVars, macroVars>>

----------------------------------------------------------------------------
(* Bounds *)

\* concurrent callers sharing one handle
NTasks == 2

\* datasources declared in one configuration file
MaxDatasources == 2

\* fields of one entity struct
MaxFields == 3

Tasks == 1..NTasks

----------------------------------------------------------------------------
(* Datasources *)

DatabaseType == {"PostgreSql", "SqlServer"}

\* crate::datasources::Auth with its nested PostgresAuth / SqlServerAuth
Auth == {[backend |-> "Postgres", method |-> "Basic"],
         [backend |-> "SqlServer", method |-> "Basic"],
         [backend |-> "SqlServer", method |-> "Integrated"]}

\* properties.port is an Option<u16>: <<>> is None, <<p>> is Some(p)
Ports == {<<>>, <<5432>>, <<1433>>, <<3340>>}

Datasources == [db_type : DatabaseType, auth : Auth, port : Ports]

\* Option::unwrap_or_default on the port
unwrap_or_default(p) == IF p = <<>> THEN 0 ELSE p[1]

\* get_db_type that answers the first backend for every datasource
get_db_type_first(ds) == "PostgreSql"

\* DatasourceConfig::get_db_type: the backend kind of the descriptor
get_db_type(ds) == ds.db_type

NoConfig == [set |-> FALSE, port |-> 0, auth |-> "none", trust_cert |-> FALSE]

IdleTask == [t \in Tasks |-> "idle"]
NoRows == [t \in Tasks |-> [tag |-> "none", rows |-> <<>>]]

NoParam == [ty |-> "none", val |-> <<>>]
NoOutcome == [tag |-> "none"]
NoRow == [backend |-> "none", cols |-> <<>>]
NoCall == [op |-> "none", col |-> "none", output |-> "none"]

ConnIdle ==
    /\ pc = "start" /\ result = "pending" /\ config = NoConfig /\ io = <<>>
    /\ driver = "none" /\ log = <<>> /\ borrowers = {}
    /\ taskpc = IdleTask /\ got = NoRows /\ pgPending = <<>> /\ stream = <<>>

MarshalIdle == param = NoParam /\ marshalled = NoOutcome
RowIdle ==
    row = NoRow /\ rowcall = NoCall /\ rowout = NoOutcome /\ served = "none"

NoEntity == [fields |-> <<>>, primary_key |-> <<>>]
NoTokens == [generated |-> FALSE]
NoUpdate == [method |-> "none"]

LoaderIdle == config_file = <<>> /\ canyon_sql = <<>> /\ db_types = <<>>
MacroIdle ==
    macro_data = NoEntity /\ tokens = NoTokens /\ update_call = NoUpdate

----------------------------------------------------------------------------
(* DatabaseConnection::new *)

IoEvent(op, port, ok) == [op |-> op, port |-> port, ok |-> ok]

\* new() with the match on datasource.auth left out: it connects with
\* whatever credentials the descriptor carries
NewConfigure_unchecked ==
    /\ pc = "start"
    /\ IF get_db_type(datasource) = "PostgreSql"
       THEN /\ pc' = "pg_connect"
            /\ UNCHANGED <<result, config>>
       ELSE /\ pc' = "ss_tcp"
            /\ config' = [set |-> TRUE,
                          port |-> unwrap_or_default(datasource.port),
                          auth |-> datasource.auth.method,
                          trust_cert |-> TRUE]
            /\ UNCHANGED result
    /\ UNCHANGED <<datasource, io, driver, log, borrowers, taskpc, got,
                   pgPending, stream, marshalVars, rowVars,
                   loaderVars, macroVars>>

\* new() choosing the backend by the auth variant of the descriptor
NewConfigure_by_auth ==
    /\ pc = "start"
    /\ IF datasource.auth.backend = "Postgres"
       THEN /\ pc' = "pg_connect"
            /\ UNCHANGED <<result, config>>
       ELSE /\ pc' = "ss_tcp"
            /\ config' = [set |-> TRUE,
                          port |-> unwrap_or_default(datasource.port),
                          auth |-> datasource.auth.method,
                          trust_cert |-> TRUE]
            /\ UNCHANGED result
    /\ UNCHANGED <<datasource, io, driver, log, borrowers, taskpc, got,
                   pgPending, stream, marshalVars, rowVars,
                   loaderVars, macroVars>>

\* The synchronous head of new(): the match on get_db_type(), the match on
\* datasource.auth and, for SqlServer, the Config setters. A mismatching
\* auth variant panics here.
NewConfigure ==
    /\ pc = "start"
    /\ IF get_db_type(datasource) = "PostgreSql"
       THEN IF datasource.auth.backend = "Postgres"
            THEN /\ pc' = "pg_connect"
                 /\ UNCHANGED <<result, config>>
            ELSE /\ pc' = "done"
                 /\ result' = "panic"
                 /\ UNCHANGED config
       ELSE IF datasource.auth.backend = "Postgres"
            THEN /\ pc' = "done"
                 /\ result' = "panic"
                 /\ UNCHANGED config
            ELSE /\ pc' = "ss_tcp"
                 /\ config' = [set |-> TRUE,
                               port |-> unwrap_or_default(datasource.port),
                               auth |-> datasource.auth.method,
                               trust_cert |-> TRUE]
                 /\ UNCHANGED result
    /\ UNCHANGED <<datasource, io, driver, log, borrowers, taskpc, got,
                   pgPending, stream, marshalVars, rowVars,
                   loaderVars, macroVars>>

\* tokio_postgres::connect(..).await? retried until it succeeds
PgConnect_retry ==
    /\ pc = "pg_connect"
    /\ \E ok \in BOOLEAN :
         /\ io' = Append(io, IoEvent("tokio_postgres::connect",
                                     unwrap_or_default(datasource.port), ok))
         /\ pc' = IF ok THEN "pg_spawn" ELSE "pg_connect"
         /\ UNCHANGED result
    /\ UNCHANGED <<datasource, config, driver, log, borrowers, taskpc, got,
                   pgPending, stream, marshalVars, rowVars,
                   loaderVars, macroVars>>

\* tokio_postgres::connect(..).await? : an error returns Err from new()
PgConnect ==
    /\ pc = "pg_connect"
    /\ \E ok \in BOOLEAN :
         /\ io' = Append(io, IoEvent("tokio_postgres::connect",
                                     unwrap_or_default(datasource.port), ok))
         /\ IF ok
            THEN pc' = "pg_spawn" /\ UNCHANGED result
            ELSE pc' = "done" /\ result' = "Err"
    /\ UNCHANGED <<datasource, config, driver, log, borrowers, taskpc, got,
                   pgPending, stream, marshalVars, rowVars,
                   loaderVars, macroVars>>

\* tokio::spawn(async move { new_connection.await ... })
PgSpawn ==
    /\ pc = "pg_spawn"
    /\ driver' = "running"
    /\ pc' = "pg_return"
    /\ UNCHANGED <<datasource, result, config, io, log, borrowers, taskpc,
                   got, pgPending, stream, marshalVars, rowVars,
                   loaderVars, macroVars>>

\* Ok(DatabaseConnection::Postgres(PostgreSqlConnection { client }))
PgReturn ==
    /\ pc = "pg_return"
    /\ result' = "Postgres"
    /\ pc' = "done"
    /\ UNCHANGED <<datasource, config, io, driver, log, borrowers, taskpc,
                   got, pgPending, stream, marshalVars, rowVars,
                   loaderVars, macroVars>>

\* TcpStream::connect(config.get_addr()).await.expect(..)
SsTcpConnect ==
    /\ pc = "ss_tcp"
    /\ \E ok \in BOOLEAN :
         /\ io' = Append(io, IoEvent("TcpStream::connect", config.port, ok))
         /\ IF ok
            THEN pc' = "ss_nodelay" /\ UNCHANGED result
            ELSE pc' = "done" /\ result' = "panic"
    /\ UNCHANGED <<datasource, config, driver, log, borrowers, taskpc, got,
                   pgPending, stream, marshalVars, rowVars,
                   loaderVars, macroVars>>

\* tcp.set_nodelay(true) with its result dropped
SsSetNodelay_ignored ==
    /\ pc = "ss_nodelay"
    /\ \E ok \in BOOLEAN :
         /\ io' = Append(io, IoEvent("set_nodelay", config.port, ok))
         /\ pc' = "ss_login"
         /\ UNCHANGED result
    /\ UNCHANGED <<datasource, config, driver, log, borrowers, taskpc, got,
                   pgPending, stream, marshalVars, rowVars,
                   loaderVars, macroVars>>

\* tcp.set_nodelay(true).expect(..)
SsSetNodelay ==
    /\ pc = "ss_nodelay"
    /\ \E ok \in BOOLEAN :
         /\ io' = Append(io, IoEvent("set_nodelay", config.port, ok))
         /\ IF ok
            THEN pc' = "ss_login" /\ UNCHANGED result
            ELSE pc' = "done" /\ result' = "panic"
    /\ UNCHANGED <<datasource, config, driver, log, borrowers, taskpc, got,
                   pgPending, stream, marshalVars, rowVars,
                   loaderVars, macroVars>>

\* tiberius::Client::connect(config, tcp).await, then client.expect(..)
\* inside Ok(DatabaseConnection::SqlServer(.. Box::leak(Box::new(..))))
SsLogin ==
    /\ pc = "ss_login"
    /\ \E ok \in BOOLEAN :
         /\ io' = Append(io, IoEvent("tiberius::Client::connect",
                                     config.port, ok))
         /\ result' = IF ok THEN "SqlServer" ELSE "panic"
         /\ pc' = "done"
    /\ UNCHANGED <<datasource, config, driver, log, borrowers, taskpc, got,
                   pgPending, stream, marshalVars, rowVars,
                   loaderVars, macroVars>>

----------------------------------------------------------------------------
(* The detached driver task of the PostgreSQL connection *)

DriverErrorLine ==
    "An error occurred while trying to connect to the PostgreSQL database"

ErrRows == [tag |-> "err", rows |-> <<>>]

\* every request still queued in the client loses its response channel
FailPending ==
    /\ got' = [t \in Tasks |->
                 IF \E i \in 1..Len(pgPending) : pgPending[i] = t
                 THEN ErrRows ELSE got[t]]
    /\ taskpc' = [t \in Tasks |->
                    IF \E i \in 1..Len(pgPending) : pgPending[i] = t
                    THEN "done" ELSE taskpc[t]]
    /\ pgPending' = <<>>

\* the driver's error handed back to the caller of new() instead of logged
DriverFail_propagate ==
    /\ driver = "running"
    /\ driver' = "failed"
    /\ result' = "Err"
    /\ FailPending
    /\ UNCHANGED <<datasource, pc, config, io, log, borrowers, stream,
                   marshalVars, rowVars,
                   loaderVars, macroVars>>

\* if let Err(e) = new_connection.await { eprintln!(..) }
DriverFail ==
    /\ driver = "running"
    /\ driver' = "failed"
    /\ log' = Append(log, DriverErrorLine)
    /\ FailPending
    /\ UNCHANGED <<datasource, pc, result, config, io, borrowers, stream,
                   marshalVars, rowVars,
                   loaderVars, macroVars>>

\* new_connection.await resolves to Ok(()): the connection was closed
DriverClose ==
    /\ driver = "running"
    /\ driver' = "closed"
    /\ FailPending
    /\ UNCHANGED <<datasource, pc, result, config, io, log, borrowers, stream,
                   marshalVars, rowVars,
                   loaderVars, macroVars>>

----------------------------------------------------------------------------
(* Concurrent callers of the handle *)

\* caller t issues a query of its own; query q selects q rows
Query(t) == t
ExpectedRows(q) == [i \in 1..q |-> [query |-> q, n |-> i]]
RowsOf(q) == [tag |-> "rows", rows |-> ExpectedRows(q)]

\* the variants a handle can hold
Handles == {"Postgres", "SqlServer"}

\* postgres_connection answering None on a handle of the other variant
postgres_connection_none(t) ==
    /\ result \in Handles
    /\ taskpc[t] = "idle"
    /\ taskpc' = [taskpc EXCEPT ![t] = IF result = "Postgres"
                                       THEN "pg_conn" ELSE "pg_none"]
    /\ UNCHANGED <<datasource, pc, result, config, io, driver, log,
                   borrowers, got, pgPending, stream, marshalVars, rowVars,
                   loaderVars, macroVars>>

\* DatabaseConnection::postgres_connection: Some(conn) on the Postgres
\* variant, panic!() on any other
postgres_connection(t) ==
    /\ result \in Handles
    /\ taskpc[t] = "idle"
    /\ taskpc' = [taskpc EXCEPT ![t] = IF result = "Postgres"
                                       THEN "pg_conn" ELSE "pg_panic"]
    /\ UNCHANGED <<datasource, pc, result, config, io, driver, log,
                   borrowers, got, pgPending, stream, marshalVars, rowVars,
                   loaderVars, macroVars>>

\* a query through the Postgres variant: the client queues the request with
\* a response channel of its own; once the driver has ended it fails at once
PgQuery(t) ==
    /\ result = "Postgres"
    /\ taskpc[t] = "pg_conn"
    /\ IF driver = "running"
       THEN /\ pgPending' = Append(pgPending, t)
            /\ taskpc' = [taskpc EXCEPT ![t] = "sent"]
            /\ UNCHANGED got
       ELSE /\ got' = [got EXCEPT ![t] = ErrRows]
            /\ taskpc' = [taskpc EXCEPT ![t] = "done"]
            /\ UNCHANGED pgPending
    /\ UNCHANGED <<datasource, pc, result, config, io, driver, log,
                   borrowers, stream, marshalVars, rowVars,
                   loaderVars, macroVars>>

\* the driver answers the oldest request on that request's channel
PgRespond ==
    /\ driver = "running"
    /\ pgPending # <<>>
    /\ LET t == Head(pgPending) IN
         /\ got' = [got EXCEPT ![t] = RowsOf(Query(t))]
         /\ taskpc' = [taskpc EXCEPT ![t] = "done"]
    /\ pgPending' = Tail(pgPending)
    /\ UNCHANGED <<datasource, pc, result, config, io, driver, log,
                   borrowers, stream, marshalVars, rowVars,
                   loaderVars, macroVars>>

\* DatabaseConnection::sqlserver_connection: Some(conn) on the SqlServer
\* variant, panic!() on any other. The handle is Send + Sync by assertion and
\* keeps no lock, so the accessor hands out the client to every caller that
\* reaches the handle.
sqlserver_connection(t) ==
    /\ result \in Handles
    /\ taskpc[t] = "idle"
    /\ IF result = "SqlServer"
       THEN /\ borrowers' = borrowers \cup {t}
            /\ taskpc' = [taskpc EXCEPT ![t] = "borrowed"]
       ELSE /\ taskpc' = [taskpc EXCEPT ![t] = "ss_panic"]
            /\ UNCHANGED borrowers
    /\ UNCHANGED <<datasource, pc, result, config, io, driver, log, got,
                   pgPending, stream, marshalVars, rowVars,
                   loaderVars, macroVars>>

\* the tiberius client writes the request on its single TCP stream
SsQuerySend(t) ==
    /\ taskpc[t] = "borrowed"
    /\ stream' = Append(stream, Query(t))
    /\ taskpc' = [taskpc EXCEPT ![t] = "sent"]
    /\ UNCHANGED <<datasource, pc, result, config, io, driver, log,
                   borrowers, got, pgPending, marshalVars, rowVars,
                   loaderVars, macroVars>>

\* the tiberius client reads the next response off the stream; the server
\* answers requests in the order they were written
SsQueryReceive(t) ==
    /\ taskpc[t] = "sent"
    /\ result = "SqlServer"
    /\ stream # <<>>
    /\ got' = [got EXCEPT ![t] = RowsOf(Head(stream))]
    /\ stream' = Tail(stream)
    /\ borrowers' = borrowers \ {t}
    /\ taskpc' = [taskpc EXCEPT ![t] = "done"]
    /\ UNCHANGED <<datasource, pc, result, config, io, driver, log,
                   pgPending, marshalVars, rowVars,
                   loaderVars, macroVars>>

Init ==
    /\ datasource \in Datasources
    /\ ConnIdle
    /\ MarshalIdle
    /\ RowIdle
    /\ LoaderIdle
    /\ MacroIdle

Next ==
    \/ NewConfigure
    \/ PgConnect
    \/ PgSpawn
    \/ PgReturn
    \/ SsTcpConnect
    \/ SsSetNodelay
    \/ SsLogin
    \/ DriverFail
    \/ DriverClose
    \/ PgRespond
    \/ \E t \in Tasks : postgres_connection(t)
    \/ \E t \in Tasks : PgQuery(t)
    \/ \E t \in Tasks : sqlserver_connection(t)
    \/ \E t \in Tasks : SsQuerySend(t)
    \/ \E t \in Tasks : SsQueryReceive(t)

Spec == Init /\ [][Next]_vars

----------------------------------------------------------------------------
(* QueryParameters: the supported kinds and the values tried of each *)

NumKinds == {"i16", "i32", "i64", "f32", "f64"}
TextKinds == {"text"}
ChronoKinds == {"NaiveDate", "NaiveTime", "NaiveDateTime",
                "DateTime<FixedOffset>", "DateTime<Utc>"}
Kinds == NumKinds \cup TextKinds \cup ChronoKinds

\* the impls of a kind: T, &T, Option<T>, Option<&T>; text is String,
\* &String, Option<String>, Option<&String>, &str, Option<&str>
Forms(kind) ==
    IF kind \in NumKinds THEN {"owned", "ref", "opt", "opt_ref"}
    ELSE IF kind \in TextKinds
         THEN {"owned", "ref", "opt", "opt_ref", "str", "opt_str"}
         ELSE {"owned", "opt"}

OptionalForms == {"opt", "opt_ref", "opt_str"}

\* every value is written as its literal: the marshalling copies the value
\* and never computes with it
Values(kind) ==
    CASE kind = "i16" -> {"-32768", "0", "32767"}
      [] kind = "i32" -> {"-2147483648", "7", "2147483647"}
      [] kind = "i64" -> {"-9223372036854775808", "4126494859789"}
      [] kind = "f32" -> {"0.0", "-1.5", "NaN"}
      [] kind = "f64" -> {"0.0", "2.5e300"}
      [] kind = "text" -> {"", "alice"}
      [] kind = "NaiveDate" -> {"2022-01-01", "1970-01-01"}
      [] kind = "NaiveTime" -> {"00:00:00", "23:59:59"}
      [] kind = "NaiveDateTime" -> {"2022-01-01T10:00:00"}
      [] kind = "DateTime<FixedOffset>" -> {"2022-01-01T10:00:00+02:00"}
      [] kind = "DateTime<Utc>" -> {"2022-01-01T10:00:00Z"}

\* an Option is a sequence: <<>> is None, <<v>> is Some(v); a value that is
\* not optional is carried as <<v>>
Params ==
    UNION {UNION {{[kind |-> k, form |-> f, val |-> <<v>>] : v \in Values(k)}
                    \cup (IF f \in OptionalForms
                          THEN {[kind |-> k, form |-> f, val |-> <<>>]}
                          ELSE {})
                  : f \in Forms(k)}
           : k \in Kinds}

\* tiberius::ColumnData: one variant per scalar kind, holding an Option
ColumnData(variant, opt) == [variant |-> variant, data |-> opt]

\* the ColumnData variant each impl names; the chrono kinds go through
\* tiberius' IntoSql
Variant(kind) ==
    CASE kind = "i16" -> "I16"
      [] kind = "i32" -> "I32"
      [] kind = "i64" -> "I64"
      [] kind = "f32" -> "F32"
      [] kind = "f64" -> "F64"
      [] kind = "text" -> "String"
      [] kind = "NaiveDate" -> "Date"
      [] kind = "NaiveTime" -> "Time"
      [] kind = "NaiveDateTime" -> "DateTime2"
      [] kind = "DateTime<FixedOffset>" -> "DateTimeOffset"
      [] kind = "DateTime<Utc>" -> "DateTimeOffset"

\* std::borrow::Cow<str>
Cow(ownership, text) == [cow |-> ownership, text |-> text]

Returned(data) == [tag |-> "value", data |-> data]
Panicked == [tag |-> "panic"]

\* impl QueryParameters for i16 / i32 / i64 / f32 / f64:
\* ColumnData::X(Some(*self))
num_as_sqlserver_param(kind, v) ==
    Returned(ColumnData(Variant(kind), <<v>>))

\* impl QueryParameters for &i16 ..: ColumnData::X(Some(**self))
ref_num_as_sqlserver_param(kind, v) ==
    Returned(ColumnData(Variant(kind), <<v>>))

\* impl QueryParameters for Option<i16> ..: ColumnData::X(*self)
opt_num_as_sqlserver_param(kind, o) ==
    Returned(ColumnData(Variant(kind), o))

\* Option<&i16> with the test of the unwrap turned round
opt_ref_num_inverted(kind, o) ==
    IF o # <<>>
    THEN Panicked
    ELSE Returned(ColumnData(Variant(kind), <<>>))

\* impl QueryParameters for Option<&i16> ..:
\* ColumnData::X(Some(*self.unwrap())), or *self.expect(..) for the floats
opt_ref_num_as_sqlserver_param(kind, o) ==
    IF o = <<>>
    THEN Panicked
    ELSE Returned(ColumnData(Variant(kind), <<o[1]>>))

\* impl QueryParameters for String: Cow::Owned(self.to_owned())
string_as_sqlserver_param(s) ==
    Returned(ColumnData("String", <<Cow("Owned", s)>>))

\* &String copied into an owned wire string
ref_string_to_owned(s) ==
    Returned(ColumnData("String", <<Cow("Owned", s)>>))

\* impl QueryParameters for &String: Cow::Borrowed(self)
ref_string_as_sqlserver_param(s) ==
    Returned(ColumnData("String", <<Cow("Borrowed", s)>>))

\* impl QueryParameters for Option<String>
opt_string_as_sqlserver_param(o) ==
    IF o # <<>>
    THEN Returned(ColumnData("String", <<Cow("Owned", o[1])>>))
    ELSE Returned(ColumnData("String", <<>>))

\* impl QueryParameters for Option<&String>
opt_ref_string_as_sqlserver_param(o) ==
    IF o # <<>>
    THEN Returned(ColumnData("String", <<Cow("Borrowed", o[1])>>))
    ELSE Returned(ColumnData("String", <<>>))

\* impl QueryParameters for &str: Cow::Borrowed(*self)
str_as_sqlserver_param(s) ==
    Returned(ColumnData("String", <<Cow("Borrowed", s)>>))

\* impl QueryParameters for Option<&str>
opt_str_as_sqlserver_param(o) ==
    IF o # <<>>
    THEN Returned(ColumnData("String", <<Cow("Borrowed", o[1])>>))
    ELSE Returned(ColumnData("String", <<>>))

\* tiberius' IntoSql of a chrono value: the value in the TDS time type of
\* the variant (Date, Time, DateTime2, DateTimeOffset)
into_sql(kind, v) == [tds |-> Variant(kind), of |-> v]

\* impl QueryParameters for NaiveDate .. DateTime<Utc> and their Options:
\* self.into_sql(), the variant of the kind with Some(value) or None
chrono_as_sqlserver_param(kind, o) ==
    Returned(ColumnData(Variant(kind),
                        IF o = <<>> THEN <<>> ELSE <<into_sql(kind, o[1])>>))

\* QueryParameters::as_sqlserver_param, by the impl the value's type selects
as_sqlserver_param(p) ==
    CASE p.kind \in NumKinds /\ p.form = "owned" ->
            num_as_sqlserver_param(p.kind, p.val[1])
      [] p.kind \in NumKinds /\ p.form = "ref" ->
            ref_num_as_sqlserver_param(p.kind, p.val[1])
      [] p.kind \in NumKinds /\ p.form = "opt" ->
            opt_num_as_sqlserver_param(p.kind, p.val)
      [] p.kind \in NumKinds /\ p.form = "opt_ref" ->
            opt_ref_num_as_sqlserver_param(p.kind, p.val)
      [] p.kind \in TextKinds /\ p.form = "owned" ->
            string_as_sqlserver_param(p.val[1])
      [] p.kind \in TextKinds /\ p.form = "ref" ->
            ref_string_as_sqlserver_param(p.val[1])
      [] p.kind \in TextKinds /\ p.form = "opt" ->
            opt_string_as_sqlserver_param(p.val)
      [] p.kind \in TextKinds /\ p.form = "opt_ref" ->
            opt_ref_string_as_sqlserver_param(p.val)
      [] p.kind \in TextKinds /\ p.form = "str" ->
            str_as_sqlserver_param(p.val[1])
      [] p.kind \in TextKinds /\ p.form = "opt_str" ->
            opt_str_as_sqlserver_param(p.val)
      [] p.kind \in ChronoKinds ->
            chrono_as_sqlserver_param(p.kind, p.val)

\* the Rust type the impl is written for
TypeName(p) ==
    LET base == IF p.kind = "text" THEN "String" ELSE p.kind IN
    CASE p.form = "owned" -> <<base>>
      [] p.form = "ref" -> <<"&", base>>
      [] p.form = "opt" -> <<"Option", base>>
      [] p.form = "opt_ref" -> <<"Option", "&", base>>
      [] p.form = "str" -> <<"&", "str">>
      [] p.form = "opt_str" -> <<"Option", "&", "str">>

\* QueryParameters::as_postgres_param: self, as a &(dyn ToSql + Sync)
as_postgres_param(p) ==
    Returned([dyn |-> "ToSql", ty |-> TypeName(p), val |-> p.val])

\* the PostgreSQL type a Rust kind is written as
PgType(kind) ==
    CASE kind = "i16" -> "INT2"
      [] kind = "i32" -> "INT4"
      [] kind = "i64" -> "INT8"
      [] kind = "f32" -> "FLOAT4"
      [] kind = "f64" -> "FLOAT8"
      [] kind = "text" -> "TEXT"
      [] kind = "NaiveDate" -> "DATE"
      [] kind = "NaiveTime" -> "TIME"
      [] kind = "NaiveDateTime" -> "TIMESTAMP"
      [] kind = "DateTime<FixedOffset>" -> "TIMESTAMPTZ"
      [] kind = "DateTime<Utc>" -> "TIMESTAMPTZ"

\* the kind a &dyn ToSql is of: its type with the & and Option peeled off
KindOf(dyn) ==
    LET base == dyn.ty[Len(dyn.ty)] IN
    IF base \in {"String", "str"} THEN "text" ELSE base

\* ToSql::to_sql_checked of the reference as_postgres_param returned: the
\* binary form of the value under its PostgreSQL type, NULL for None
postgres_to_sql(dyn) ==
    [ty |-> PgType(KindOf(dyn)),
     buf |-> IF dyn.val = <<>> THEN <<>> ELSE <<[binary |-> dyn.val[1]]>>]

\* tokio_postgres FromSql::from_sql_nullable for Option<kind>
postgres_from_sql_nullable(kind, wire) ==
    IF wire.ty # PgType(kind) THEN [ok |-> FALSE, val |-> <<"WrongType">>]
    ELSE [ok |-> TRUE,
          val |-> IF wire.buf = <<>> THEN <<>> ELSE <<wire.buf[1].binary>>]

\* tiberius FromSql::from_sql for kind: Option<kind> off the ColumnData
\* variant of the kind, a Conversion error off any other variant
tiberius_from_sql(kind, cd) ==
    IF cd.variant # Variant(kind) THEN [ok |-> FALSE, val |-> <<"Conversion">>]
    ELSE [ok |-> TRUE,
          val |-> IF cd.data = <<>> THEN <<>>
                  ELSE IF kind \in TextKinds THEN <<cd.data[1].text>>
                  ELSE IF kind \in ChronoKinds THEN <<cd.data[1].of>>
                  ELSE cd.data]

\* a caller marshals its parameter for the SqlServer backend
AsSqlServerParam ==
    /\ marshalled = NoOutcome
    /\ marshalled' = [call |-> "as_sqlserver_param"] @@ as_sqlserver_param(param)
    /\ UNCHANGED <<param, connVars, rowVars, loaderVars, macroVars>>

\* a caller marshals its parameter for the PostgreSQL backend
AsPostgresParam ==
    /\ marshalled = NoOutcome
    /\ marshalled' = [call |-> "as_postgres_param"] @@ as_postgres_param(param)
    /\ UNCHANGED <<param, connVars, rowVars, loaderVars, macroVars>>

MarshalInit ==
    /\ param \in Params
    /\ marshalled = NoOutcome
    /\ datasource = [db_type |-> "PostgreSql",
                     auth |-> [backend |-> "Postgres", method |-> "Basic"],
                     port |-> <<>>]
    /\ ConnIdle
    /\ RowIdle
    /\ LoaderIdle
    /\ MacroIdle

MarshalNext == AsSqlServerParam \/ AsPostgresParam

MarshalSpec == MarshalInit /\ [][MarshalNext]_vars

----------------------------------------------------------------------------
(* RowOperations for &dyn Row *)

\* the concrete types behind &dyn Row: the two the facade knows, and any
\* other implementor of the public Row trait
RowBackends == {"postgres", "tiberius", "other"}

ColumnCell(name, ty, val) == [name |-> name, ty |-> ty, val |-> val]

\* bytes the backend's from_sql cannot decode as the column's type; a
\* tiberius row holds its cells decoded and never carries them
Malformed == "\\xC3\\x28"

\* the projections tried: (id, name), (name, id) and (name)
Projections(i, n) == {<<i, n>>, <<n, i>>, <<n>>}

\* the cells tried of the name column
NameCells(backend) ==
    IF backend = "postgres"
    THEN {<<>>, <<"alice">>, <<Malformed>>}
    ELSE {<<>>, <<"alice">>}

RowsOfBackend(b) ==
    UNION {{[backend |-> b, cols |-> p] :
               p \in Projections(ColumnCell("id", "int", i),
                                 ColumnCell("name", "text", n))}
           : i \in {<<>>, <<"7">>}, n \in NameCells(b)}

\* rows of those projections, each cell NULL or holding a value
Rows == UNION {RowsOfBackend(b) : b \in RowBackends}

ColumnNames == {"id", "name", "missing"}
Outputs == {"i32", "&str"}
RowCalls == [op : {"get", "get_opt"}, col : ColumnNames, output : Outputs]

\* FromSql::accepts / the ColumnData variant an Output reads
Accepts(output, ty) ==
    \/ output = "i32" /\ ty = "int"
    \/ output = "&str" /\ ty = "text"

\* the index of the column of that name, as an Option
ColumnIndex(r, name) ==
    IF \E i \in 1..Len(r.cols) : r.cols[i].name = name
    THEN <<CHOOSE i \in 1..Len(r.cols) :
              /\ r.cols[i].name = name
              /\ \A j \in 1..(i - 1) : r.cols[j].name # name>>
    ELSE <<>>

Ok(v) == [ok |-> TRUE, val |-> v]
Err(e) == [ok |-> FALSE, val |-> <<e>>]

\* tokio_postgres::Row::get::<&str, T>: panics on an unknown column, on a
\* type T does not accept and on a failed from_sql_nullable; a NULL is an
\* error (WasNull) unless T is an Option
postgres_row_get(r, name, output, optional) ==
    LET idx == ColumnIndex(r, name) IN
    IF idx = <<>> THEN Panicked
    ELSE LET c == r.cols[idx[1]] IN
         IF ~Accepts(output, c.ty) THEN Panicked
         ELSE IF c.val = <<Malformed>> THEN Panicked
         ELSE IF optional THEN Returned(c.val)
         ELSE IF c.val = <<>> THEN Panicked
         ELSE Returned(c.val)

\* tiberius::Row::try_get::<R, &str>: Err on an unknown column and on a
\* ColumnData variant R cannot be read from, else Ok(Option<R>)
tiberius_row_try_get(r, name, output) ==
    LET idx == ColumnIndex(r, name) IN
    IF idx = <<>> THEN Err("Conversion")
    ELSE LET c == r.cols[idx[1]] IN
         IF ~Accepts(output, c.ty) THEN Err("Conversion")
         ELSE Ok(c.val)

\* tiberius::Row::get::<R, &str>: try_get(..).unwrap()
tiberius_row_get(r, name, output) ==
    LET res == tiberius_row_try_get(r, name, output) IN
    IF res.ok THEN Returned(res.val) ELSE Panicked

\* Option::expect / Result::expect on what tiberius returned
expect_some(out) ==
    IF out.tag = "panic" \/ out.data = <<>> THEN Panicked ELSE out

expect_ok(res) ==
    IF res.ok THEN Returned(res.val) ELSE Panicked

\* self.as_any().downcast_ref::<T>(): Some exactly on a row of type T
downcast_ref(r, backend) == r.backend = backend

\* what a call produced, with the backend whose row type served it
Served(via, out) == [via |-> via, out |-> out]

\* get with the second downcast left out: only tokio_postgres rows are read
get_postgres_only(r, col_name, output) ==
    IF downcast_ref(r, "postgres")
    THEN Served("tokio_postgres", postgres_row_get(r, col_name, output, FALSE))
    ELSE Served("none", Panicked)

\* RowOperations::get
get(r, col_name, output) ==
    IF downcast_ref(r, "postgres")
    THEN Served("tokio_postgres", postgres_row_get(r, col_name, output, FALSE))
    ELSE IF downcast_ref(r, "tiberius")
         THEN Served("tiberius",
                     expect_some(tiberius_row_get(r, col_name, output)))
         ELSE Served("none", Panicked)

\* get_opt written as get is: row.get(..).expect(..) on the tiberius row
get_opt_as_get(r, col_name, output) ==
    IF downcast_ref(r, "postgres")
    THEN Served("tokio_postgres", postgres_row_get(r, col_name, output, TRUE))
    ELSE IF downcast_ref(r, "tiberius")
         THEN Served("tiberius",
                     expect_some(tiberius_row_get(r, col_name, output)))
         ELSE Served("none", Panicked)

\* RowOperations::get_opt
get_opt(r, col_name, output) ==
    IF downcast_ref(r, "postgres")
    THEN Served("tokio_postgres", postgres_row_get(r, col_name, output, TRUE))
    ELSE IF downcast_ref(r, "tiberius")
         THEN Served("tiberius",
                     expect_ok(tiberius_row_try_get(r, col_name, output)))
         ELSE Served("none", Panicked)

\* Column and the backend-tagged ColumnType
Column(name, type_) == [name |-> name, type_ |-> type_]
ColumnType(tag, ty) == [tag |-> tag, ty |-> ty]

\* columns that pushes each column in front of those it has
RECURSIVE push_columns_front(_, _, _)
push_columns_front(cells, tag, cols) ==
    IF cells = <<>> THEN cols
    ELSE push_columns_front(Tail(cells), tag,
                            <<Column(Head(cells).name,
                                     ColumnType(tag, Head(cells).ty))>> \o cols)

\* .columns().into_iter().for_each(|c| cols.push(Column { .. }))
RECURSIVE push_columns(_, _, _)
push_columns(cells, tag, cols) ==
    IF cells = <<>> THEN cols
    ELSE push_columns(Tail(cells), tag,
                      Append(cols, Column(Head(cells).name,
                                          ColumnType(tag, Head(cells).ty))))

\* columns that takes any row that is no tokio_postgres row for a tiberius
\* row, without the expect
columns_unchecked(r) ==
    IF downcast_ref(r, "postgres")
    THEN Served("tokio_postgres",
                Returned(push_columns(r.cols, "Postgres", <<>>)))
    ELSE Served("tiberius",
                Returned(push_columns(r.cols, "SqlServer", <<>>)))

\* RowOperations::columns
columns(r) ==
    IF downcast_ref(r, "postgres")
    THEN Served("tokio_postgres",
                Returned(push_columns(r.cols, "Postgres", <<>>)))
    ELSE IF downcast_ref(r, "tiberius")
         THEN Served("tiberius",
                     Returned(push_columns(r.cols, "SqlServer", <<>>)))
         ELSE Served("none", Panicked)

\* a caller reads a column with get
RowGet ==
    /\ rowout = NoOutcome
    /\ \E c \in RowCalls :
         /\ c.op = "get"
         /\ rowcall' = c
         /\ rowout' = get(row, c.col, c.output).out
         /\ served' = get(row, c.col, c.output).via
    /\ UNCHANGED <<row, connVars, marshalVars, loaderVars, macroVars>>

\* a caller reads a column with get_opt
RowGetOpt ==
    /\ rowout = NoOutcome
    /\ \E c \in RowCalls :
         /\ c.op = "get_opt"
         /\ rowcall' = c
         /\ rowout' = get_opt(row, c.col, c.output).out
         /\ served' = get_opt(row, c.col, c.output).via
    /\ UNCHANGED <<row, connVars, marshalVars, loaderVars, macroVars>>

\* a caller lists the columns of the row
RowColumns ==
    /\ rowout = NoOutcome
    /\ rowcall' = [op |-> "columns", col |-> "none", output |-> "none"]
    /\ rowout' = columns(row).out
    /\ served' = columns(row).via
    /\ UNCHANGED <<row, connVars, marshalVars, loaderVars, macroVars>>

RowInit ==
    /\ row \in Rows
    /\ rowcall = NoCall
    /\ rowout = NoOutcome
    /\ served = "none"
    /\ datasource = [db_type |-> "PostgreSql",
                     auth |-> [backend |-> "Postgres", method |-> "Basic"],
                     port |-> <<>>]
    /\ ConnIdle
    /\ MarshalIdle
    /\ LoaderIdle
    /\ MacroIdle

RowNext == RowGet \/ RowGetOpt \/ RowColumns

RowSpec == RowInit /\ [][RowNext]_vars

----------------------------------------------------------------------------
(* The configuration loader and get_db_type *)

\* a datasource as the file declares it: its auth table and properties.port
Declared == [auth : Auth, port : Ports]

ConfigFiles == UNION {[1..n -> Declared] : n \in 1..MaxDatasources}

\* the two datasources of the test's configuration: PostgresDS, SqlServerDS
CONFIG_FILE_MOCK_ALT ==
    <<[auth |-> [backend |-> "Postgres", method |-> "Basic"], port |-> <<>>],
      [auth |-> [backend |-> "SqlServer", method |-> "Basic"],
       port |-> <<3340>>]>>

\* the DatasourceConfig of a declared datasource: its backend kind is
\* resolved from the auth table the declaration carries
from_declared(d) ==
    [db_type |-> IF d.auth.backend = "Postgres" THEN "PostgreSql"
                 ELSE "SqlServer",
     auth |-> d.auth,
     port |-> d.port]

\* toml::from_str::<CanyonSqlConfig>(..)
LoadConfig ==
    /\ canyon_sql = <<>>
    /\ canyon_sql' = [i \in 1..Len(config_file) |-> from_declared(config_file[i])]
    /\ UNCHANGED <<config_file, db_types, connVars, marshalVars, rowVars,
                   macroVars>>

\* config.canyon_sql.datasources[i].get_db_type(), for every i
GetDbTypes ==
    /\ canyon_sql # <<>>
    /\ db_types = <<>>
    /\ db_types' = [i \in 1..Len(canyon_sql) |-> get_db_type(canyon_sql[i])]
    /\ UNCHANGED <<config_file, canyon_sql, connVars, marshalVars, rowVars,
                   macroVars>>

LoaderInit ==
    /\ config_file \in ConfigFiles
    /\ canyon_sql = <<>>
    /\ db_types = <<>>
    /\ datasource = [db_type |-> "PostgreSql",
                     auth |-> [backend |-> "Postgres", method |-> "Basic"],
                     port |-> <<>>]
    /\ ConnIdle
    /\ MarshalIdle
    /\ RowIdle
    /\ MacroIdle

LoaderNext == LoadConfig \/ GetDbTypes

LoaderSpec == LoaderInit /\ [][LoaderNext]_vars

----------------------------------------------------------------------------
(* generate_update_tokens and the update methods it generates *)

FieldNames == {"id", "ext_id", "slug"}

\* the fields of a struct, in declaration order, without repetition
FieldLists ==
    UNION {{f \in [1..n -> FieldNames] :
               \A i, j \in 1..n : f[i] = f[j] => i = j} : n \in 1..MaxFields}

\* an entity: its fields and the field annotated #[primary_key], if any
Entities ==
    UNION {{[fields |-> f, primary_key |-> pk] :
               pk \in {<<>>} \cup {<<f[i]>> : i \in 1..Len(f)}} :
           f \in FieldLists}

Methods == {"update", "update_datasource"}

QueryErrors == {"db error", "connection closed"}

QueryResults == {Ok(<<>>)} \cup {Err(e) : e \in QueryErrors}

get_struct_fields(md) == md.fields

get_primary_key_annotation(md) == md.primary_key

\* the zero-based position of the primary key among the fields
get_pk_index(md) ==
    IF md.primary_key = <<>> THEN <<>>
    ELSE <<(CHOOSE i \in 1..Len(md.fields) :
               md.fields[i] = md.primary_key[1]) - 1>>

\* the column names of the fields, the primary key left out
get_column_names_pk_parsed(md) ==
    SelectSeq(md.fields, LAMBDA f : <<f>> # md.primary_key)

\* format!("{} = ${}", column_name, i + 2), i counting from zero
vec_columns_values(update_columns) ==
    [k \in 1..Len(update_columns) |->
        [column |-> update_columns[k], placeholder |-> (k - 1) + 2]]

\* "UPDATE {} SET {} WHERE {} = ${:?}" with its arguments
stmt(str_columns_values, primary_key, pk_index) ==
    [set |-> str_columns_values,
     where |-> [column |-> primary_key, placeholder |-> pk_index + 1]]

\* the error both methods return for an entity without a primary key;
\* into_inner() keeps the message and drops the ErrorKind
no_primary_key_error(method) ==
    Err([message |-> <<"You can't use the '", method, "' method on a ",
                       "CanyonEntity that does not have a #[primary_key] ",
                       "annotation. If you need to perform an specific ",
                       "search, use the Querybuilder instead.">>])

\* the update methods answering Ok(()) whatever the query returned
update_returns_ok(query_result) == Ok(<<>>)

\* if let Err(e) = result { Err(e) } else { Ok(()) }
update_returns(query_result) ==
    IF ~query_result.ok THEN query_result ELSE Ok(<<>>)

GenerateUpdateTokens ==
    /\ ~tokens.generated
    /\ LET update_columns == get_column_names_pk_parsed(macro_data)
           fields == get_struct_fields(macro_data)
           str_columns_values == vec_columns_values(update_columns)
           pk == get_primary_key_annotation(macro_data)
       IN  tokens' =
             IF pk # <<>>
             THEN [generated |-> TRUE,
                   has_pk |-> TRUE,
                   stmt |-> stmt(str_columns_values, pk[1],
                                 get_pk_index(macro_data)[1]),
                   update_values |-> fields]
             ELSE [generated |-> TRUE, has_pk |-> FALSE]
    /\ UNCHANGED <<macro_data, update_call, connVars, marshalVars, rowVars,
                   loaderVars>>

\* one call of a generated method on an instance of the entity
Update(method) ==
    /\ tokens.generated
    /\ update_call = NoUpdate
    /\ IF tokens.has_pk
       THEN \E query_result \in QueryResults :
               update_call' =
                   [method |-> method,
                    queries |-> <<[stmt |-> tokens.stmt,
                                   params |-> tokens.update_values]>>,
                    result |-> <<query_result>>,
                    returned |-> update_returns(query_result)]
       ELSE update_call' = [method |-> method,
                            queries |-> <<>>,
                            result |-> <<>>,
                            returned |-> no_primary_key_error(method)]
    /\ UNCHANGED <<macro_data, tokens, connVars, marshalVars, rowVars,
                   loaderVars>>

MacroInit ==
    /\ macro_data \in Entities
    /\ tokens = NoTokens
    /\ update_call = NoUpdate
    /\ datasource = [db_type |-> "PostgreSql",
                     auth |-> [backend |-> "Postgres", method |-> "Basic"],
                     port |-> <<>>]
    /\ ConnIdle
    /\ MarshalIdle
    /\ RowIdle
    /\ LoaderIdle

MacroNext ==
    \/ GenerateUpdateTokens
    \/ \E method \in Methods : Update(method)

MacroSpec == MacroInit /\ [][MacroNext]_vars

----------------------------------------------------------------------------
(* Claims about DatabaseConnection::new and the shared handle *)

AuthMismatch(ds) ==
    \/ get_db_type(ds) = "PostgreSql" /\ ds.auth.backend = "SqlServer"
    \/ get_db_type(ds) = "SqlServer" /\ ds.auth.backend = "Postgres"

Attempts(op) == Cardinality({i \in 1..Len(io) : io[i].op = op})

ConnectOps ==
    {"tokio_postgres::connect", "TcpStream::connect", "tiberius::Client::connect"}

\* C1: new() on a datasource whose auth variant does not match its backend
\* kind fails before any network operation is started: no connect is ever
\* attempted, no driver is spawned and no handle is produced.
C1_MismatchFailsBeforeIo ==
    AuthMismatch(datasource) =>
        /\ io = <<>>
        /\ driver = "none"
        /\ result \in {"pending", "panic"}
        /\ pc = "done" => result = "panic"

C1_Witness ==
    AuthMismatch(datasource) /\ pc = "done" /\ result = "panic"

C5_ConnectFailureIsErr ==
    (pc = "done" /\ \E i \in 1..Len(io) : io[i].op \in ConnectOps /\ ~io[i].ok)
        => result = "Err"

\* C6: one call of new() makes at most one connection attempt (one
\* tokio_postgres::connect, or one TcpStream::connect followed by at most
\* one login), and nothing is attempted after the first failure.
C6_NoRetry ==
    /\ \A op \in ConnectOps \cup {"set_nodelay"} : Attempts(op) <= 1
    /\ Attempts("tokio_postgres::connect") = 0
          \/ Attempts("TcpStream::connect") = 0
    /\ \A i \in 1..Len(io) : ~io[i].ok => i = Len(io)
    /\ (\E i \in 1..Len(io) : ~io[i].ok) => pc = "done"

C6_Witness ==
    /\ pc = "done"
    /\ Len(io) >= 1
    /\ ~io[Len(io)].ok

\* C7: the PostgreSQL driver is spawned only after connect succeeded; when
\* it ends with an error the error is logged then, and new() has returned,
\* or still returns, the Postgres handle: the error never reaches the caller
\* of new().
C7_DriverErrorLoggedNotPropagated ==
    /\ driver # "none" =>
          /\ get_db_type(datasource) = "PostgreSql"
          /\ \E i \in 1..Len(io) :
                io[i].op = "tokio_postgres::connect" /\ io[i].ok
    /\ (driver = "failed") = (log = <<DriverErrorLine>>)
    /\ driver = "failed" =>
          \/ result = "Postgres"
          \/ result = "pending" /\ pc = "pg_return"

C7_Witness ==
    driver = "failed" /\ result = "Postgres" /\ log # <<>>

----------------------------------------------------------------------------
(* Claims about the marshalling *)

SqlServerMarshalled == marshalled # NoOutcome /\ marshalled.call = "as_sqlserver_param"

Absent(p) == p.form \in OptionalForms /\ p.val = <<>>

\* C8: as_sqlserver_param of an absent optional (None) yields the variant of
\* its scalar kind holding None, for optionals of owned and of borrowed values.
C8_AbsentIsTypedNull ==
    (SqlServerMarshalled /\ Absent(param)) =>
        /\ marshalled.tag = "value"
        /\ marshalled.data = ColumnData(Variant(param.kind), <<>>)

\* C9: marshalling starts no I/O and never yields a recoverable error; it
\* fails only on an absent optional that the impl takes to be present (the
\* unwrap of Option<&number>), and that failure is a panic.
C9_FailsOnlyOnAbsentOptional ==
    /\ io = <<>>
    /\ marshalled # NoOutcome =>
          /\ marshalled.tag \in {"value", "panic"}
          /\ marshalled.tag = "panic" => Absent(param)
          /\ (/\ marshalled.call = "as_sqlserver_param"
              /\ param.kind \in NumKinds
              /\ param.form = "opt_ref"
              /\ param.val = <<>>) => marshalled.tag = "panic"

C9_Witness ==
    /\ marshalled # NoOutcome
    /\ marshalled.tag = "panic"
    /\ Absent(param)

\* the impl for a reference to the same value
Borrowed(p) ==
    [p EXCEPT !.form = IF p.form = "owned" THEN "ref" ELSE "opt_ref"]

\* the content of a wire value, whoever owns its text
Content(cd) ==
    IF cd.variant = "String" /\ cd.data # <<>>
    THEN <<cd.data[1].text>>
    ELSE cd.data

Equivalent(a, b) ==
    /\ a.tag = "value"
    /\ b.tag = "value"
    /\ a.data.variant = b.data.variant
    /\ Content(a.data) = Content(b.data)

\* C10: for a kind with owned and borrowed impls, marshalling a value and
\* marshalling a reference to it give the same ColumnData variant with the
\* same content, the absent optional included.
C10_OwnedBorrowedEquivalent ==
    (/\ SqlServerMarshalled
     /\ param.kind \in NumKinds \cup TextKinds
     /\ param.form \in {"owned", "opt"}) =>
        Equivalent(marshalled, as_sqlserver_param(Borrowed(param)))

----------------------------------------------------------------------------
(* Claims about the row facade *)

\* the call was made on a row of one of the two backends and named a column
\* that exists and holds NULL
OnNullColumn ==
    /\ rowout # NoOutcome
    /\ row.backend \in {"postgres", "tiberius"}
    /\ ColumnIndex(row, rowcall.col) # <<>>
    /\ row.cols[ColumnIndex(row, rowcall.col)[1]].val = <<>>

OutputFitsColumn ==
    Accepts(rowcall.output, row.cols[ColumnIndex(row, rowcall.col)[1]].ty)

\* C2 as stated: on a column that exists and holds NULL, get_opt returns
\* None and never panics, and get panics.
C2_NullColumn ==
    OnNullColumn =>
        /\ rowcall.op = "get_opt" => rowout = Returned(<<>>)
        /\ rowcall.op = "get" => rowout = Panicked

\* C2 amended: on a column that exists, holds NULL and is of a type the
\* requested Output reads, get_opt returns None and never panics; get on a
\* column that exists and holds NULL panics.
C2_NullColumnOfOutputType ==
    OnNullColumn =>
        /\ (rowcall.op = "get_opt" /\ OutputFitsColumn) => rowout = Returned(<<>>)
        /\ rowcall.op = "get" => rowout = Panicked

C2_Witness ==
    /\ OnNullColumn
    /\ OutputFitsColumn
    /\ row.backend = "tiberius"
    /\ rowcall.op = "get_opt"
    /\ rowout = Returned(<<>>)

----------------------------------------------------------------------------
(* Claims about the marshalling, continued *)

\* what the backend's native decode reads off the marshalled value
Decoded ==
    IF marshalled.call = "as_sqlserver_param"
    THEN tiberius_from_sql(param.kind, marshalled.data)
    ELSE postgres_from_sql_nullable(param.kind, postgres_to_sql(marshalled.data))

\* C11: marshalling a value of any supported kind or its optional form and
\* decoding the result with the backend's native decode gives the original
\* value back; an absent optional comes back absent.
C11_RoundTrip ==
    marshalled # NoOutcome =>
        /\ marshalled.tag = "value"
        /\ Decoded = [ok |-> TRUE, val |-> param.val]

\* C12: as_sqlserver_param keeps the ownership of text: String and a present
\* Option<String> marshal to Cow::Owned, &String, &str and a present
\* Option<&String> / Option<&str> to Cow::Borrowed, with the input's text.
C12_TextOwnership ==
    (SqlServerMarshalled /\ param.kind \in TextKinds /\ param.val # <<>>) =>
        /\ marshalled.tag = "value"
        /\ marshalled.data.variant = "String"
        /\ marshalled.data.data # <<>>
        /\ marshalled.data.data[1].text = param.val[1]
        /\ marshalled.data.data[1].cow =
              IF param.form \in {"owned", "opt"} THEN "Owned" ELSE "Borrowed"

C12_Witness ==
    /\ SqlServerMarshalled
    /\ param.kind \in TextKinds
    /\ param.form = "opt_str"
    /\ param.val = <<"alice">>
    /\ marshalled.data = ColumnData("String", <<Cow("Borrowed", "alice")>>)

----------------------------------------------------------------------------
(* Claims about the row facade, continued *)

KnownRow == row.backend \in {"postgres", "tiberius"}

\* the names of a sequence of cells or of Columns, in order
Names(cs) == [i \in 1..Len(cs) |-> cs[i].name]

\* C13: on a row of either backend columns() returns one Column per column
\* of the row, in the row's order: the names are the projection list, none
\* dropped, duplicated or moved.
C13_ColumnsInOrder ==
    (KnownRow /\ rowcall.op = "columns") =>
        /\ rowout.tag = "value"
        /\ Len(rowout.data) = Len(row.cols)
        /\ Names(rowout.data) = Names(row.cols)
        /\ \A i \in 1..Len(row.cols) :
              /\ rowout.data[i].type_.ty = row.cols[i].ty
              /\ rowout.data[i].type_.tag =
                    IF row.backend = "postgres" THEN "Postgres" ELSE "SqlServer"

C13_Witness ==
    /\ KnownRow
    /\ rowcall.op = "columns"
    /\ Names(rowout.data) = <<"name", "id">>

\* the cell the call names, as an Option
CalledCell ==
    LET idx == ColumnIndex(row, rowcall.col) IN
    IF idx = <<>> THEN <<>> ELSE <<row.cols[idx[1]]>>

\* C14: get returns the column's value when the column exists and holds a
\* value that is not NULL and decodes as Output; it panics when the row has
\* no such column, when the column's type is not Output's and when the
\* backend's extraction fails.
C14_GetValueOrPanic ==
    (KnownRow /\ rowcall.op = "get") =>
        IF /\ CalledCell # <<>>
           /\ Accepts(rowcall.output, CalledCell[1].ty)
           /\ CalledCell[1].val \notin {<<>>, <<Malformed>>}
        THEN rowout = Returned(CalledCell[1].val)
        ELSE rowout = Panicked

C14_Witness ==
    /\ row.backend = "tiberius"
    /\ rowcall = [op |-> "get", col |-> "name", output |-> "&str"]
    /\ rowout = Returned(<<"alice">>)

\* C15: on a row that is neither a tokio_postgres nor a tiberius row get,
\* get_opt and columns panic; on a row of one of the two the call is served
\* by that backend's row type and never by the other's.
C15_TwoRowTypes ==
    rowout # NoOutcome =>
        /\ row.backend = "other" => (rowout = Panicked /\ served = "none")
        /\ row.backend = "postgres" => served = "tokio_postgres"
        /\ row.backend = "tiberius" => served = "tiberius"

C15_Witness ==
    /\ row.backend = "other"
    /\ rowcall.op = "columns"
    /\ rowout = Panicked

----------------------------------------------------------------------------
(* Claims about the configuration *)

----------------------------------------------------------------------------
(* Claims about the handle new() returns *)

Succeeded(op) == Cardinality({i \in 1..Len(io) : io[i].op = op /\ io[i].ok})

SqlServerOps == {"TcpStream::connect", "set_nodelay", "tiberius::Client::connect"}

\* C18: a successful new() returns the variant of the datasource's backend
\* kind, holding the one client its connect produced: Postgres exactly for
\* PostgreSql and SqlServer exactly for SqlServer, with one successful client
\* connect of that backend and no operation of the other backend.
C18_TagIsBackendKind ==
    /\ result = "Postgres" =>
          /\ get_db_type(datasource) = "PostgreSql"
          /\ Succeeded("tokio_postgres::connect") = 1
          /\ \A op \in SqlServerOps : Attempts(op) = 0
    /\ result = "SqlServer" =>
          /\ get_db_type(datasource) = "SqlServer"
          /\ Succeeded("tiberius::Client::connect") = 1
          /\ Attempts("tokio_postgres::connect") = 0
          /\ driver = "none"

C18_Witness ==
    /\ result = "Postgres"
    /\ get_db_type(datasource) = "PostgreSql"
    /\ datasource.port # <<>>

\* C19: the SqlServer branch runs in one order: the Config (address,
\* authentication, trust_cert) is complete before TcpStream::connect, which is
\* the first operation; set_nodelay is the second and runs only on an opened
\* stream; the login is the third and runs only after set_nodelay succeeded;
\* the handle exists only after the login succeeded; a failed step is the
\* last operation of new().
C19_SqlServerStepOrder ==
    /\ \A i \in 1..Len(io) :
          /\ io[i].op = "TcpStream::connect" =>
                /\ i = 1
                /\ config.set
                /\ config.auth # "none"
                /\ config.trust_cert
          /\ io[i].op = "set_nodelay" =>
                /\ i = 2
                /\ io[1].op = "TcpStream::connect"
                /\ io[1].ok
          /\ io[i].op = "tiberius::Client::connect" =>
                /\ i = 3
                /\ io[2].op = "set_nodelay"
                /\ io[2].ok
          /\ (io[i].op \in SqlServerOps /\ ~io[i].ok) =>
                /\ i = Len(io)
                /\ pc = "done"
                /\ result = "panic"
    /\ result = "SqlServer" =>
          /\ Len(io) = 3
          /\ io[3].op = "tiberius::Client::connect"
          /\ io[3].ok

C19_Witness ==
    /\ result = "SqlServer"
    /\ Len(io) = 3
    /\ config.trust_cert

----------------------------------------------------------------------------
(* Claims about the generated update methods *)

\* C17: on an entity without #[primary_key], update() and update_datasource()
\* return the "You can't use the '..' method" error and issue no query; on an
\* entity with a primary key they issue one query and return Ok(()) exactly
\* when it succeeded, and its error unchanged when it failed.
C17_UpdateResult ==
    update_call # NoUpdate =>
        IF macro_data.primary_key = <<>>
        THEN /\ update_call.queries = <<>>
             /\ ~update_call.returned.ok
             /\ update_call.returned = no_primary_key_error(update_call.method)
        ELSE /\ Len(update_call.queries) = 1
             /\ update_call.returned.ok = update_call.result[1].ok
             /\ update_call.returned.ok => update_call.returned.val = <<>>
             /\ ~update_call.result[1].ok =>
                   update_call.returned = update_call.result[1]

C17_Witness ==
    /\ update_call # NoUpdate
    /\ macro_data.primary_key # <<>>
    /\ update_call.method = "update_datasource"
    /\ update_call.returned = Err("connection closed")

\* C20: in the statement an entity with a primary key generates, the
\* parameters are the fields in declaration order, the placeholder of every
\* SET column and of the WHERE column is the position of that column's field
\* among the parameters, and no placeholder is past the last parameter.
C20_PlaceholdersAligned ==
    (tokens.generated /\ macro_data.primary_key # <<>>) =>
        /\ tokens.update_values = macro_data.fields
        /\ \A k \in 1..Len(tokens.stmt.set) :
              /\ tokens.stmt.set[k].placeholder \in 1..Len(tokens.update_values)
              /\ tokens.update_values[tokens.stmt.set[k].placeholder]
                    = tokens.stmt.set[k].column
        /\ tokens.stmt.where.placeholder \in 1..Len(tokens.update_values)
        /\ tokens.update_values[tokens.stmt.where.placeholder]
              = tokens.stmt.where.column

----------------------------------------------------------------------------
(* Claims about the backend-specific accessors *)

\* C21: an accessor call on a handle ends in Some(connection) when the handle
\* holds the accessor's variant and in a panic when it holds the other one,
\* never in None: on a Postgres handle postgres_connection hands out the
\* connection and sqlserver_connection panics, on a SqlServer handle the
\* other way round; and no step changes the variant a handle holds.
C21_AccessorsSomeOrPanic ==
    [][/\ \A t \in Tasks :
             (taskpc[t] = "idle" /\ taskpc'[t] # "idle") =>
                 /\ result \in Handles
                 /\ taskpc'[t] \in IF result = "Postgres"
                                   THEN {"pg_conn", "ss_panic"}
                                   ELSE {"borrowed", "pg_panic"}
       /\ result \in Handles => result' = result]_vars

C21_Witness ==
    /\ result = "SqlServer"
    /\ \E t, u \in Tasks : taskpc[t] = "pg_panic" /\ taskpc[u] = "borrowed"

====
